---- MODULE Spec2Model ----
(***************************************************************************)
(* A model of gerhard/gha (src/main.go): the Gha aggregator, its pipeline  *)
(* factory, Pipeline.Check and the Pipeline -> Workflow compiler.          *)
(*                                                                         *)
(* Strings whose characters the code inspects (commands, modules, secret   *)
(* names, context keys) are sequences of one-character strings; Str turns  *)
(* them into TLA+ strings, which the model only concatenates and compares. *)
(***************************************************************************)
EXTENDS Naturals, Sequences, FiniteSets, TLC

VARIABLES gha, op, arg, res

vars == <<gha, op, arg, res>>

(* ---------------------------------------------------------------- bounds *)

\* Most triggers registered on one aggregator (all kinds together).
MaxTriggers == 3

\* Most secrets declared on one pipeline whose functions are applied alone.
MaxSecrets == 2

(* --------------------------------------------------------------- strings *)

RECURSIVE Str(_)
Str(cs) == IF cs = <<>> THEN "" ELSE Head(cs) \o Str(Tail(cs))

Digits == <<"0", "1", "2", "3", "4", "5", "6", "7", "8", "9">>

\* fmt's %d verb, for the non-negative indices Config formats.
RECURSIVE Itoa(_)
Itoa(n) == IF n < 10 THEN Digits[n + 1] ELSE Itoa(n \div 10) \o Digits[(n % 10) + 1]

LowerChars == <<"a","b","c","d","e","f","g","h","i","j","k","l","m",
                "n","o","p","q","r","s","t","u","v","w","x","y","z">>

UpperChars == <<"A","B","C","D","E","F","G","H","I","J","K","L","M",
                "N","O","P","Q","R","S","T","U","V","W","X","Y","Z">>

Range(s) == {s[i] : i \in DOMAIN s}

\* The upper-case letter of each lower-case letter.
UpperOf == [c \in Range(LowerChars) |->
               UpperChars[CHOOSE i \in DOMAIN LowerChars : LowerChars[i] = c]]

\* strings.ToUpper on one character, then on a string.
UpperChar(c) == IF c \in DOMAIN UpperOf THEN UpperOf[c] ELSE c

ToUpper(cs) == [i \in DOMAIN cs |-> UpperChar(cs[i])]

\* strings.Join(elems, sep) over TLA+ strings.
RECURSIVE Join(_, _)
Join(elems, sep) ==
    IF elems = <<>> THEN ""
    ELSE IF Len(elems) = 1 THEN elems[1]
    ELSE elems[1] \o sep \o Join(Tail(elems), sep)

\* A Go map[string]string: a function from its keys; a write replaces the
\* value of a key that is already present.
EmptyMap == [k \in {} |-> ""]

Put(m, k, v) == (k :> v) @@ m

\* A nil error.
Nil == "<nil>"

(* ------------------------------------------------------------- constants *)

githubContextKeys ==
    <<
       <<"a","c","t","i","o","n">>,
       <<"a","c","t","i","o","n","_","p","a","t","h">>,
       <<"a","c","t","i","o","n","_","r","e","f">>,
       <<"a","c","t","i","o","n","_","r","e","p","o","s","i","t","o","r","y">>,
       <<"a","c","t","i","o","n","_","s","t","a","t","u","s">>,
       <<"a","c","t","o","r">>,
       <<"a","c","t","o","r","_","i","d">>,
       <<"a","p","i","_","u","r","l">>,
       <<"b","a","s","e","_","r","e","f">>,
       <<"e","n","v">>,
       <<"e","v","e","n","t","_","n","a","m","e">>,
       <<"e","v","e","n","t","_","p","a","t","h">>,
       <<"g","r","a","p","h","q","l","_","u","r","l">>,
       <<"h","e","a","d","_","r","e","f">>,
       <<"j","o","b">>,
       <<"p","a","t","h">>,
       <<"r","e","f">>,
       <<"r","e","f","_","n","a","m","e">>,
       <<"r","e","f","_","p","r","o","t","e","c","t","e","d">>,
       <<"r","e","f","_","t","y","p","e">>,
       <<"r","e","p","o","s","i","t","o","r","y">>,
       <<"r","e","p","o","s","i","t","o","r","y","_","i","d">>,
       <<"r","e","p","o","s","i","t","o","r","y","_","o","w","n","e","r">>,
       <<"r","e","p","o","s","i","t","o","r","y","_","o","w","n","e","r","_","i","d">>,
       <<"r","e","p","o","s","i","t","o","r","y","U","r","l">>,
       <<"r","e","t","e","n","t","i","o","n","_","d","a","y","s">>,
       <<"r","u","n","_","i","d">>,
       <<"r","u","n","_","n","u","m","b","e","r">>,
       <<"r","u","n","_","a","t","t","e","m","p","t">>,
       <<"s","e","c","r","e","t","_","s","o","u","r","c","e">>,
       <<"s","e","r","v","e","r","_","u","r","l">>,
       <<"s","h","a">>,
       <<"t","o","k","e","n">>,
       <<"t","r","i","g","g","e","r","i","n","g","_","a","c","t","o","r">>,
       <<"w","o","r","k","f","l","o","w">>,
       <<"w","o","r","k","f","l","o","w","_","r","e","f">>,
       <<"w","o","r","k","f","l","o","w","_","s","h","a">>,
       <<"w","o","r","k","s","p","a","c","e">>
    >>

\* The files of the module source that bashStep can read.
ModuleSource ==
    { "scripts/install-dagger.sh", "scripts/warm-engine.sh",
      "scripts/exec.sh", "scripts/stop-engine.sh" }

(* ------------------------------------------------------------------- New *)

New(noTraces, publicToken, daggerVersion, stopEngine, asJson, runner) ==
    [ PushTriggers         |-> <<>>,
      PullRequestTriggers  |-> <<>>,
      DispatchTriggers     |-> <<>>,
      IssueCommentTriggers |-> <<>>,
      Settings |-> [ PublicToken   |-> publicToken,
                     NoTraces      |-> noTraces,
                     DaggerVersion |-> daggerVersion,
                     StopEngine    |-> stopEngine,
                     AsJson        |-> asJson,
                     Runner        |-> runner ] ]

(* ---------------------------------------------------------- Gha.pipeline *)

pipeline(m, command, module, runner, secrets, sparseCheckout) ==
    LET p == [ Command        |-> command,
               Module         |-> module,
               Secrets        |-> secrets,
               SparseCheckout |-> sparseCheckout,
               Settings       |-> m.Settings ]
    IN  IF runner # "" THEN [p EXCEPT !.Settings.Runner = runner] ELSE p

(* -------------------------------------------------------- Pipeline.Check *)

\* The characters of the class [a-zA-Z0-9_].
WordChars == Range(LowerChars) \cup Range(UpperChars) \cup Range(Digits) \cup {"_"}

IsWordChar(c) == c \in WordChars

\* validName.MatchString(s) for ^[a-zA-Z0-9_]+$ : the match starts at the
\* first character, takes one or more characters of the class, and must end
\* at the end of the text.
\* The pattern without its anchors: [a-zA-Z0-9_]+ matches anywhere.
MatchString_unanchored(s) == \E i \in DOMAIN s : IsWordChar(s[i])

RECURSIVE MatchString(_)
MatchString(s) ==
    /\ s # <<>>
    /\ IsWordChar(Head(s))
    /\ (Tail(s) = <<>> \/ MatchString(Tail(s)))

InvalidSecretName(secretName) ==
    "invalid secret name: '" \o Str(secretName)
        \o "' must contain only alphanumeric characters and underscores"

RECURSIVE checkSecretNamesFrom(_, _)
checkSecretNamesFrom(secrets, i) ==
    IF i > Len(secrets) THEN Nil
    ELSE IF ~MatchString(secrets[i]) THEN InvalidSecretName(secrets[i])
    ELSE checkSecretNamesFrom(secrets, i + 1)

checkSecretNames(p) == checkSecretNamesFrom(p.Secrets, 1)

\* The pieces of the script checkCommandAndModule hands to bash -c.
DaggerCall == <<"d","a","g","g","e","r"," ","c","a","l","l">>

DashM == <<" ","-","m"," ","'">>

CloseQuote == <<"'"," ">>

DashHelp == <<" ","-","-","h","e","l","p">>

checkScript(p) ==
    LET script == IF p.Module # <<>>
                  THEN DaggerCall \o DashM \o p.Module \o CloseQuote
                  ELSE DaggerCall
    IN  script \o p.Command \o DashHelp

\* The error of a container execution that failed.
ExecError(script) == "exec failed: bash -c " \o Str(script)

\* `fails` is the outcome of the container run, which the code does not
\* decide.  The result names every script that was executed.
checkCommandAndModule(p, fails) ==
    LET script == checkScript(p)
    IN  [ err   |-> IF fails THEN ExecError(script) ELSE Nil,
          execs |-> <<script>> ]

\* Both phases run, and the result of the first is looked at afterwards.
PipelineCheck_bothPhases(p, fails) ==
    LET e1 == checkSecretNames(p)
        r2 == checkCommandAndModule(p, fails)
    IN  IF e1 # Nil THEN [err |-> e1, execs |-> r2.execs] ELSE r2

PipelineCheck(p, fails) ==
    LET e1 == checkSecretNames(p)
    IN  IF e1 # Nil THEN [err |-> e1, execs |-> <<>>]
        ELSE checkCommandAndModule(p, fails)

(* --------------------------------------------------------- step builders *)

\* The contents of a file of the module source (an opaque payload).
Contents(filename) == "<contents of " \o filename \o ">"

\* A step whose construction panicked: the script could not be read.
StepPanic(filename) == [panic |-> TRUE, file |-> filename]

bashStep(id, env) ==
    LET filename == "scripts/" \o id \o ".sh"
    IN  IF filename \notin ModuleSource
        THEN StepPanic(filename)
        ELSE [ panic |-> FALSE,
               Name  |-> filename,
               ID    |-> id,
               Uses  |-> "",
               With  |-> EmptyMap,
               Shell |-> "bash",
               Run   |-> Contents(filename),
               Env   |-> env ]

\* SparseCheckout is [nil |-> TRUE] for a nil slice, else [nil |-> FALSE,
\* paths |-> the slice].
checkoutStep(p) ==
    [ panic |-> FALSE,
      Name  |-> "Checkout",
      ID    |-> "",
      Uses  |-> "actions/checkout@v4",
      With  |-> IF ~p.SparseCheckout.nil
                THEN Put(EmptyMap, "sparse-checkout",
                         Join(p.SparseCheckout.paths
                                \o <<"dagger.json", ".dagger", "dagger", "ci">>, "\n"))
                ELSE EmptyMap,
      Shell |-> "",
      Run   |-> "",
      Env   |-> EmptyMap ]

warmEngineStep(p) == bashStep("warm-engine", EmptyMap)

installDaggerStep(p) ==
    bashStep("install-dagger", Put(EmptyMap, "DAGGER_VERSION", p.Settings.DaggerVersion))

\* callDaggerStep writes its environment in five groups, in this order.
envCommand(p) == Put(EmptyMap, "COMMAND", "dagger call -q " \o Str(p.Command))

SecretRef(secretName) == "${{ secrets." \o Str(secretName) \o " }}"

RECURSIVE envSecrets(_, _)
envSecrets(env, secrets) ==
    IF secrets = <<>> THEN env
    ELSE envSecrets(Put(env, Str(Head(secrets)), SecretRef(Head(secrets))),
                    Tail(secrets))

envModule(env, p) ==
    IF p.Module # <<>> THEN Put(env, "DAGGER_MODULE", Str(p.Module)) ELSE env

envCloudToken(env, p) ==
    IF ~p.Settings.NoTraces
    THEN IF p.Settings.PublicToken # ""
         THEN Put(Put(env, "DAGGER_CLOUD_TOKEN", p.Settings.PublicToken),
                  "_EXPERIMENTAL_DAGGER_CLOUD_TOKEN", p.Settings.PublicToken)
         ELSE Put(Put(env, "DAGGER_CLOUD_TOKEN", "${{ secrets.DAGGER_CLOUD_TOKEN }}"),
                  "_EXPERIMENTAL_DAGGER_CLOUD_TOKEN", "${{ secrets.DAGGER_CLOUD_TOKEN }}")
    ELSE env

GithubEnvKey(key) == "GITHUB_" \o Str(ToUpper(key))

GithubRef(key) == "${{ github." \o Str(key) \o " }}"

\* What the loop over githubContextKeys writes: one entry per key, and for
\* two keys with the same upper-case form the entry of the later one.
GithubEntries ==
    LET name == [i \in DOMAIN githubContextKeys |-> GithubEnvKey(githubContextKeys[i])]
    IN  [ k \in Range(name) |->
            GithubRef(githubContextKeys[
                CHOOSE i \in DOMAIN name :
                    /\ name[i] = k
                    /\ \A j \in DOMAIN name : name[j] = k => j <= i ]) ]

\* The loop writes its entries over what env holds.
envGithub(env) == GithubEntries @@ env

callDaggerEnv(p) ==
    envGithub(envCloudToken(envModule(envSecrets(envCommand(p), p.Secrets), p), p))

callDaggerStep(p) == bashStep("exec", callDaggerEnv(p))

stopEngineStep(p) == bashStep("scripts/stop-engine.sh", EmptyMap)

(* ---------------------------------------------------- Pipeline.asWorkflow *)

\* A compilation that panicked in one of its steps.
WorkflowPanic(step) == [panic |-> TRUE, file |-> step.file]

asWorkflow(p) ==
    LET first == << checkoutStep(p), installDaggerStep(p),
                    warmEngineStep(p), callDaggerStep(p) >>
        steps == IF p.Settings.StopEngine
                 THEN Append(first, stopEngineStep(p))
                 ELSE first
        bad   == {i \in DOMAIN steps : steps[i].panic}
    IN  IF bad # {}
        THEN WorkflowPanic(steps[CHOOSE i \in bad : \A j \in bad : i <= j])
        ELSE [ panic |-> FALSE,
               Name  |-> Str(p.Command),
               On    |-> "",
               Jobs  |-> [ dagger |->
                           [ RunsOn  |-> p.Settings.Runner,
                             Steps   |-> steps,
                             Outputs |-> [ stdout |-> "${{ steps.exec.outputs.stdout }}",
                                           stderr |-> "${{ steps.exec.outputs.stderr }}" ] ] ] ]

(* -------------------------------------------------------------- triggers *)

\* A trigger is [Pipeline |-> p]; its kind is the list of the aggregator it
\* is in.  A trigger is named <<kind, i>>, i its 1-based place in that list.
Kinds == <<"push", "pr", "dispatch", "issue-comment">>

TriggersOf(m, kind) ==
    CASE kind = "push"          -> m.PushTriggers
      [] kind = "pr"            -> m.PullRequestTriggers
      [] kind = "dispatch"      -> m.DispatchTriggers
      [] kind = "issue-comment" -> m.IssueCommentTriggers

TriggerIds(m) ==
    UNION { { <<Kinds[k], i>> : i \in 1..Len(TriggersOf(m, Kinds[k])) } : k \in DOMAIN Kinds }

TriggerCount(m) == Cardinality(TriggerIds(m))

PipelineOf(m, id) == TriggersOf(m, id[1])[id[2]].Pipeline

(* ------------------------------------------------------------- Gha.Check *)

\* One of the four loops of Gha.Check, from its i-th trigger on.  acc is
\* what Check has done so far: the error it returns (Nil while it runs),
\* the triggers whose Pipeline.Check it has called, the scripts executed.
RECURSIVE checkLoop(_, _, _, _, _)
checkLoop(kind, ts, i, fails, acc) ==
    IF acc.err # Nil \/ i > Len(ts) THEN acc
    ELSE LET r == PipelineCheck(ts[i].Pipeline, fails[<<kind, i>>])
         IN  checkLoop(kind, ts, i + 1, fails,
                       [ err   |-> r.err,
                         log   |-> Append(acc.log, <<kind, i>>),
                         execs |-> acc.execs \o r.execs ])

CheckStart == [err |-> Nil, log |-> <<>>, execs |-> <<>>]

\* The loops over the pull-request and the push triggers, exchanged.
GhaCheck_pullRequestFirst(m, fails) ==
    LET a1 == checkLoop("pr", m.PullRequestTriggers, 1, fails, CheckStart)
        a2 == checkLoop("push", m.PushTriggers, 1, fails, a1)
        a3 == checkLoop("dispatch", m.DispatchTriggers, 1, fails, a2)
    IN  checkLoop("issue-comment", m.IssueCommentTriggers, 1, fails, a3)

GhaCheck(m, fails) ==
    LET a1 == checkLoop("push", m.PushTriggers, 1, fails, CheckStart)
        a2 == checkLoop("pr", m.PullRequestTriggers, 1, fails, a1)
        a3 == checkLoop("dispatch", m.DispatchTriggers, 1, fails, a2)
    IN  checkLoop("issue-comment", m.IssueCommentTriggers, 1, fails, a3)

(* ------------------------------------------------------------ Gha.Config *)

\* The filename Config formats for the trigger at 0-based index i.
\* The 0-based loop index formatted as it is.
PushFilename_zeroBased(prefix, i) == prefix \o "push-" \o Itoa(i) \o ".yml"

PushFilename(prefix, i) == prefix \o "push-" \o Itoa(i + 1) \o ".yml"

PullRequestFilename(prefix, i) == prefix \o "pr-" \o Itoa(i + 1) \o ".yml"

DispatchFilename(prefix, i) == prefix \o "dispatch-" \o Itoa(i + 1) \o ".yml"

IssueCommentFilename(prefix, i) == prefix \o "issue-comment-" \o Itoa(i + 1) \o ".yml"

ConfigFilename(kind, prefix, i) ==
    CASE kind = "push"          -> PushFilename(prefix, i)
      [] kind = "pr"            -> PullRequestFilename(prefix, i)
      [] kind = "dispatch"      -> DispatchFilename(prefix, i)
      [] kind = "issue-comment" -> IssueCommentFilename(prefix, i)

\* A trigger's Config(filename, asJson): the pipeline's workflow with the
\* trigger's `on:` section, rendered into one file of that name, as JSON
\* or as YAML.  It panics when the compilation of the pipeline panics.
TriggerConfig(kind, t, filename, asJson) ==
    LET w == asWorkflow(t.Pipeline)
    IN  IF w.panic THEN w
        ELSE [ panic |-> FALSE,
               files |-> Put(<<>>, filename,
                             [ encoding |-> IF asJson THEN "json" ELSE "yaml",
                               workflow |-> [w EXCEPT !.On = kind] ]) ]

\* dir.WithDirectory(".", d): the files of d are merged into dir; a file
\* of d replaces a file of dir with the same name.
WithDirectory(dir, d) ==
    [f \in (DOMAIN dir) \cup (DOMAIN d) |-> IF f \in DOMAIN d THEN d[f] ELSE dir[f]]

\* One of the four loops of Gha.Config, from its i-th trigger on.  acc is
\* what Config has done so far: whether it panicked, the calls of a
\* trigger's Config it has made, and the directory it has built.
RECURSIVE configLoop(_, _, _, _, _, _)
configLoop(kind, ts, i, prefix, asJson, acc) ==
    IF acc.panicked \/ i > Len(ts) THEN acc
    ELSE LET filename == ConfigFilename(kind, prefix, i - 1)
             call     == [kind |-> kind, index |-> i,
                          filename |-> filename, asJson |-> asJson]
             d        == TriggerConfig(kind, ts[i], filename, asJson)
         IN  configLoop(kind, ts, i + 1, prefix, asJson,
                        IF d.panic
                        THEN [ panicked |-> TRUE,
                               calls    |-> Append(acc.calls, call),
                               dir      |-> <<>> ]
                        ELSE [ panicked |-> FALSE,
                               calls    |-> Append(acc.calls, call),
                               dir      |-> WithDirectory(acc.dir, d.files) ])

ConfigStart == [panicked |-> FALSE, calls |-> <<>>, dir |-> <<>>]

GhaConfig(m, prefix) ==
    LET j  == m.Settings.AsJson
        a1 == configLoop("push", m.PushTriggers, 1, prefix, j, ConfigStart)
        a2 == configLoop("pr", m.PullRequestTriggers, 1, prefix, j, a1)
        a3 == configLoop("dispatch", m.DispatchTriggers, 1, prefix, j, a2)
    IN  configLoop("issue-comment", m.IssueCommentTriggers, 1, prefix, j, a3)

(* ------------------------------------------------------------ the inputs *)

\* The arguments New is called with.  An omitted runner or daggerVersion
\* arrives as its declared default, "ubuntu-latest" or "latest".
NewArgs ==
    [ noTraces      : {FALSE},
      publicToken   : {""},
      daggerVersion : {"latest"},
      stopEngine    : BOOLEAN,
      asJson        : BOOLEAN,
      runner        : {"", "ubuntu-latest"} ]

\* The arguments a trigger is registered with.
PipelineArgs ==
    { [ command |-> <<"b","u","i","l","d">>, module |-> <<>>, runner |-> "",
        secrets |-> <<>>, sparseCheckout |-> [nil |-> TRUE] ],
      [ command |-> <<"t","e","s","t">>, module |-> <<"c","i">>,
        runner |-> "macos-latest", secrets |-> << <<"T","O","K","E","N">> >>,
        sparseCheckout |-> [nil |-> FALSE, paths |-> <<"src">>] ],
      [ command |-> <<"l","i","n","t">>, module |-> <<>>, runner |-> "",
        secrets |-> << <<"B","A","D","-","N","A","M","E">> >>,
        sparseCheckout |-> [nil |-> TRUE] ] }

Prefixes == {"", "ci-"}

\* The sequences over S of length at most n.
SeqsUpTo(S, n) == UNION { [1..k -> S] : k \in 0..n }

(* ------------------------------------------------- the aggregator's life *)

InitWith(args) ==
    \E a \in args :
        /\ gha = New(a.noTraces, a.publicToken, a.daggerVersion,
                     a.stopEngine, a.asJson, a.runner)
        /\ op = "New"
        /\ arg = a
        /\ res = Nil

Init == InitWith(NewArgs)

\* Registering a trigger of one kind: a trigger that owns the pipeline the
\* factory makes is appended to the list of its kind.
Register(kind, a) ==
    LET p == pipeline(gha, a.command, a.module, a.runner, a.secrets, a.sparseCheckout)
        t == [Pipeline |-> p]
    IN  /\ TriggerCount(gha) < MaxTriggers
        /\ gha' = CASE kind = "push" ->
                         [gha EXCEPT !.PushTriggers = Append(@, t)]
                    [] kind = "pr" ->
                         [gha EXCEPT !.PullRequestTriggers = Append(@, t)]
                    [] kind = "dispatch" ->
                         [gha EXCEPT !.DispatchTriggers = Append(@, t)]
                    [] kind = "issue-comment" ->
                         [gha EXCEPT !.IssueCommentTriggers = Append(@, t)]
        /\ op' = "pipeline"
        /\ arg' = [kind |-> kind, args |-> a]
        /\ res' = [pipeline |-> p, settingsBefore |-> gha.Settings]

OnPush == \E a \in PipelineArgs : Register("push", a)

OnPullRequest == \E a \in PipelineArgs : Register("pr", a)

OnDispatch == \E a \in PipelineArgs : Register("dispatch", a)

OnIssueComment == \E a \in PipelineArgs : Register("issue-comment", a)

\* Gha.Check; fails[id] is the outcome of the container run of trigger id.
Check ==
    \E fails \in [TriggerIds(gha) -> BOOLEAN] :
        /\ op' = "Check"
        /\ arg' = fails
        /\ res' = GhaCheck(gha, fails)
        /\ UNCHANGED gha

Config ==
    \E prefix \in Prefixes :
        /\ op' = "Config"
        /\ arg' = prefix
        /\ res' = GhaConfig(gha, prefix)
        /\ UNCHANGED gha

\* An aggregator that is built and checked.  Check reads no setting, so the
\* aggregators differ in their runner alone.
InitCheck == InitWith({a \in NewArgs : ~a.stopEngine /\ ~a.asJson})

NextCheck == OnPush \/ OnPullRequest \/ OnDispatch \/ OnIssueComment \/ Check

SpecCheck == InitCheck /\ [][NextCheck]_vars

\* An aggregator that is built and compiled.
NextConfig == OnPush \/ OnPullRequest \/ OnDispatch \/ OnIssueComment \/ Config

SpecConfig == Init /\ [][NextConfig]_vars

(* ------------------------------------------------- one pipeline, alone   *)

\* The state right after the factory of a new aggregator made a pipeline:
\* the functions of the pipeline are then applied to it, one per behaviour.
InitPipeline(newArgs, pipelineArgs) ==
    \E a \in newArgs, b \in pipelineArgs :
        /\ gha = New(a.noTraces, a.publicToken, a.daggerVersion,
                     a.stopEngine, a.asJson, a.runner)
        /\ op = "pipeline"
        /\ arg = [kind |-> "none", args |-> b]
        /\ res = [ pipeline |-> pipeline(gha, b.command, b.module, b.runner,
                                         b.secrets, b.sparseCheckout),
                   settingsBefore |-> gha.Settings ]

CheckSecretNames ==
    /\ op = "pipeline"
    /\ op' = "checkSecretNames"
    /\ arg' = res.pipeline
    /\ res' = checkSecretNames(res.pipeline)
    /\ UNCHANGED gha

CheckCommandAndModule ==
    /\ op = "pipeline"
    /\ \E fails \in BOOLEAN :
        /\ op' = "checkCommandAndModule"
        /\ arg' = [p |-> res.pipeline, fails |-> fails]
        /\ res' = checkCommandAndModule(res.pipeline, fails)
    /\ UNCHANGED gha

CheckPipeline ==
    /\ op = "pipeline"
    /\ \E fails \in BOOLEAN :
        /\ op' = "Pipeline.Check"
        /\ arg' = [p |-> res.pipeline, fails |-> fails]
        /\ res' = PipelineCheck(res.pipeline, fails)
    /\ UNCHANGED gha

CallDaggerStep ==
    /\ op = "pipeline"
    /\ op' = "callDaggerStep"
    /\ arg' = res.pipeline
    /\ res' = callDaggerStep(res.pipeline)
    /\ UNCHANGED gha

AsWorkflow ==
    /\ op = "pipeline"
    /\ op' = "asWorkflow"
    /\ arg' = res.pipeline
    /\ res' = asWorkflow(res.pipeline)
    /\ UNCHANGED gha

\* Secret names for the validator: valid ones, the empty name, and names
\* with a character outside the class first, last or alone.
NameInputs ==
    { <<>>, <<"a">>, <<"Z">>, <<"7">>, <<"_">>, <<"-">>, <<" ">>,
      <<"A","_","9">>, <<"a","-">>, <<"-","a">>, <<"a","\n">>, <<"a",".","b">> }

CommandInputs ==
    { <<"b","u","i","l","d">>,
      <<"b","u","i","l","d"," ","-","-","s","o","u","r","c","e","=",".">>,
      <<"t","e","s","t"," ","a","l","l">> }

ModuleInputs == { <<>>, <<"c","i">> }

DefaultNewArgs ==
    [ noTraces : {FALSE}, publicToken : {""}, daggerVersion : {"latest"},
      stopEngine : {FALSE}, asJson : {FALSE}, runner : {"ubuntu-latest"} ]

PreflightArgs ==
    [ command : CommandInputs, module : ModuleInputs, runner : {""},
      secrets : SeqsUpTo(NameInputs, MaxSecrets),
      sparseCheckout : {[nil |-> TRUE]} ]

\* The pre-flight validation of one pipeline and its two phases.
InitPreflight == InitPipeline(DefaultNewArgs, PreflightArgs)

NextPreflight == CheckSecretNames \/ CheckCommandAndModule \/ CheckPipeline

SpecPreflight == InitPreflight /\ [][NextPreflight]_vars

\* Secret names that pass the validation; some are the keys the execute
\* step writes itself.
EnvNameInputs ==
    { <<"T","O","K","E","N">>,
      <<"C","O","M","M","A","N","D">>,
      <<"D","A","G","G","E","R","_","M","O","D","U","L","E">>,
      <<"D","A","G","G","E","R","_","C","L","O","U","D","_","T","O","K","E","N">>,
      <<"G","I","T","H","U","B","_","S","H","A">> }

CompileNewArgs ==
    [ noTraces : BOOLEAN, publicToken : {"", "dag_pub_1"}, daggerVersion : {"latest"},
      stopEngine : BOOLEAN, asJson : {FALSE}, runner : {"ubuntu-latest"} ]

CompileArgs ==
    [ command : {<<"b","u","i","l","d">>}, module : ModuleInputs, runner : {""},
      secrets : SeqsUpTo(EnvNameInputs, MaxSecrets),
      sparseCheckout : {[nil |-> TRUE], [nil |-> FALSE, paths |-> <<"src">>]} ]

\* The compilation of one pipeline and its execute step.
InitCompile == InitPipeline(CompileNewArgs, CompileArgs)

NextCompile == CallDaggerStep \/ AsWorkflow

SpecCompile == InitCompile /\ [][NextCompile]_vars

(* ---------------------------------------------------------------- claims *)

Min(S) == CHOOSE x \in S : \A y \in S : x <= y

\* The names <<kind, 1>> .. <<kind, n>> of the n triggers of one kind.
IdsOf(m, kind) == [i \in 1..Len(TriggersOf(m, kind)) |-> <<kind, i>>]

\* Push, then PullRequest, then Dispatch, then IssueComment, each in
\* registration order.
FixedOrder(m) ==
    IdsOf(m, "push") \o IdsOf(m, "pr") \o IdsOf(m, "dispatch") \o IdsOf(m, "issue-comment")

\* A name of the grammar: non-empty, every character in [A-Za-z0-9_].
WellFormedName(n) ==
    /\ Len(n) > 0
    /\ \A i \in DOMAIN n :
          n[i] \in Range(LowerChars) \cup Range(UpperChars) \cup Range(Digits) \cup {"_"}

\* What Pipeline.Check of trigger id returns when its container run has
\* the outcome fails[id].
OutcomeOf(m, fails, id) ==
    LET p   == PipelineOf(m, id)
        bad == {i \in DOMAIN p.Secrets : ~WellFormedName(p.Secrets[i])}
    IN  IF bad # {} THEN InvalidSecretName(p.Secrets[Min(bad)])
        ELSE IF fails[id] THEN ExecError(checkScript(p))
        ELSE Nil

\* C1: Gha.Check calls Pipeline.Check on the triggers in the fixed order
\* (Push, PullRequest, Dispatch, IssueComment, each in registration order),
\* stops at the first one that fails, returns exactly its error and checks
\* none that comes later; it returns no error only if every check succeeded.
C1_CheckFirstFailureInOrder ==
    op = "Check" =>
        LET order  == FixedOrder(gha)
            failed == {i \in DOMAIN order : OutcomeOf(gha, arg, order[i]) # Nil}
        IN  IF failed = {}
            THEN res.err = Nil /\ res.log = order
            ELSE /\ res.err = OutcomeOf(gha, arg, order[Min(failed)])
                 /\ res.err # Nil
                 /\ res.log = SubSeq(order, 1, Min(failed))

\* A Check that failed at a pull-request trigger after a push trigger that
\* passed, with a later trigger that fails too and was not checked.
C1_Witness ==
    /\ op = "Check"
    /\ res.err # Nil
    /\ Len(res.log) = 2
    /\ res.log[1][1] = "push"
    /\ res.log[2][1] = "pr"
    /\ \E id \in TriggerIds(gha) :
          /\ OutcomeOf(gha, arg, id) # Nil
          /\ \A i \in DOMAIN res.log : res.log[i] # id

\* C2: Pipeline.Check validates the secret names first and starts the
\* container run only if every name is valid: with an invalid name it
\* returns the invalid-secret-name error and nothing is executed; with
\* valid names its outcome is the outcome of the dry run.
C2_CheckTwoPhases ==
    op = "Pipeline.Check" =>
        LET p   == arg.p
            bad == {i \in DOMAIN p.Secrets : ~WellFormedName(p.Secrets[i])}
        IN  IF bad # {}
            THEN /\ res.err = InvalidSecretName(p.Secrets[Min(bad)])
                 /\ res.execs = <<>>
            ELSE /\ res.execs = <<checkScript(p)>>
                 /\ res.err = IF arg.fails THEN ExecError(checkScript(p)) ELSE Nil

\* A Check of a pipeline with an invalid name, whose container run would
\* have failed as well: it returned the name's error and executed nothing.
C2_Witness ==
    /\ op = "Pipeline.Check"
    /\ arg.fails
    /\ \E i \in DOMAIN arg.p.Secrets : ~WellFormedName(arg.p.Secrets[i])
    /\ res.execs = <<>>
    /\ res.err # Nil

\* C3: the validation of a list of secret names succeeds if and only if
\* every name is non-empty and made of [A-Za-z0-9_] alone; otherwise its
\* error names the first offending entry of the list (the empty name
\* offends), and no later one.
C3_SecretNamesFirstOffender ==
    op = "checkSecretNames" =>
        LET names == arg.Secrets
            bad   == {i \in DOMAIN names : ~WellFormedName(names[i])}
        IN  /\ (res = Nil) <=> (bad = {})
            /\ bad # {} =>
                 /\ res = "invalid secret name: '" \o Str(names[Min(bad)])
                            \o "' must contain only alphanumeric characters and underscores"
                 /\ \A j \in bad :
                      names[j] # names[Min(bad)] => res # InvalidSecretName(names[j])

\* A validation of two offending names, the second of them a valid name
\* followed by a line feed, after which the error names the first, empty one.
C3_Witness ==
    /\ op = "checkSecretNames"
    /\ Len(arg.Secrets) = 2
    /\ arg.Secrets[1] = <<>>
    /\ arg.Secrets[2] = <<"a", "\n">>
    /\ res = InvalidSecretName(<<>>)

\* The filenames Config passed to the triggers of one kind, in call order.
FilenamesOf(calls, kind) ==
    LET idx == {i \in DOMAIN calls : calls[i].kind = kind}
    IN  [n \in 1..Cardinality(idx) |->
            calls[CHOOSE i \in idx : Cardinality({j \in idx : j <= i}) = n].filename]

\* C4 as stated: the N triggers of one kind get the filenames
\* {p}{kind}-1 .. {p}{kind}-N in registration order, with the extension
\* .yml when JSON mode is off and .json when asJson is set.
C4_FilenamesWithJsonExtension ==
    (op = "Config" /\ ~res.panicked) =>
        \A k \in DOMAIN Kinds :
            FilenamesOf(res.calls, Kinds[k]) =
                [i \in 1..Len(TriggersOf(gha, Kinds[k])) |->
                    arg \o Kinds[k] \o "-" \o Itoa(i)
                        \o (IF gha.Settings.AsJson THEN ".json" ELSE ".yml")]

\* C4, amended: the filename Config generates for the i-th trigger of a
\* kind (1-based, in registration order) is {p}{kind}-{i}.yml, with kind one
\* of push, pr, dispatch, issue-comment, whether or not asJson is set;
\* asJson is passed on, unchanged, with every filename.  Config generates
\* the filenames in the fixed order, one for every trigger when it returns.
C4_FilenamesAlwaysYml ==
    op = "Config" =>
        /\ \A n \in DOMAIN res.calls :
              /\ <<res.calls[n].kind, res.calls[n].index>> = FixedOrder(gha)[n]
              /\ res.calls[n].filename =
                    arg \o res.calls[n].kind \o "-" \o Itoa(res.calls[n].index) \o ".yml"
              /\ res.calls[n].asJson = gha.Settings.AsJson
        /\ Len(res.calls) <= TriggerCount(gha)
        /\ ~res.panicked => Len(res.calls) = TriggerCount(gha)

\* A Config in JSON mode, with a prefix, of two push triggers and a trigger
\* of another kind, that returned.
C4_Witness ==
    /\ op = "Config"
    /\ gha.Settings.AsJson
    /\ ~res.panicked
    /\ arg = "ci-"
    /\ Len(gha.PushTriggers) = 2
    /\ Len(res.calls) = 3
    /\ res.calls[2].filename = "ci-push-2.yml"

\* C5: whatever the triggers and the prefix, the filenames Config generates
\* are pairwise distinct, within a kind and across kinds, no merge replaces
\* a file, and the tree Config returns holds exactly one file per trigger.
C5_OneFilePerTrigger ==
    op = "Config" =>
        /\ \A i, j \in DOMAIN res.calls :
              i # j => res.calls[i].filename # res.calls[j].filename
        /\ ~res.panicked
        /\ DOMAIN res.dir = {res.calls[i].filename : i \in DOMAIN res.calls}
        /\ Cardinality(DOMAIN res.dir) = TriggerCount(gha)

\* C10: the runner is non-empty after construction; a pipeline of the
\* factory holds the aggregator's settings with its runner alone replaced, by
\* the factory's runner argument when that is non-empty; the factory leaves
\* the aggregator's settings as they were; the compiled job runs on the
\* pipeline's non-empty runner.
C10_RunnerNonEmptyAndCopied ==
    /\ gha.Settings.Runner # ""
    /\ op = "pipeline" =>
          /\ gha.Settings = res.settingsBefore
          /\ res.pipeline.Settings =
                [gha.Settings EXCEPT
                    !.Runner = IF arg.args.runner # "" THEN arg.args.runner ELSE @]
          /\ res.pipeline.Settings.Runner # ""
    /\ op = "Config" =>
          /\ ~res.panicked
          /\ \A n \in DOMAIN res.calls :
                LET c == res.calls[n]
                    p == PipelineOf(gha, <<c.kind, c.index>>)
                    w == res.dir[c.filename].workflow
                IN  /\ w.Jobs.dagger.RunsOn = p.Settings.Runner
                    /\ w.Jobs.dagger.RunsOn # ""

CloudTokenKeys == {"DAGGER_CLOUD_TOKEN", "_EXPERIMENTAL_DAGGER_CLOUD_TOKEN"}

\* C6: in the environment of the execute step of any pipeline, with
\* tracing enabled and no public token both cloud-token variables are the
\* expression ${{ secrets.DAGGER_CLOUD_TOKEN }}; with tracing enabled and a
\* public token both are that token; with tracing disabled neither is
\* present.
C6_CloudTokenRule ==
    op = "callDaggerStep" =>
        LET env == res.Env
            s   == arg.Settings
        IN  /\ (~s.NoTraces /\ s.PublicToken = "") =>
                  \A k \in CloudTokenKeys :
                      k \in DOMAIN env /\ env[k] = "${{ secrets.DAGGER_CLOUD_TOKEN }}"
            /\ (~s.NoTraces /\ s.PublicToken # "") =>
                  \A k \in CloudTokenKeys :
                      k \in DOMAIN env /\ env[k] = s.PublicToken
            /\ s.NoTraces => \A k \in CloudTokenKeys : k \notin DOMAIN env

\* The keys the execute step writes, group by group.
SecretKeys(p) == {Str(p.Secrets[i]) : i \in DOMAIN p.Secrets}

ModuleKeys(p) == IF p.Module # <<>> THEN {"DAGGER_MODULE"} ELSE {}

TokenKeys(p) == IF ~p.Settings.NoTraces THEN CloudTokenKeys ELSE {}

HostContextKeys ==
    {"GITHUB_" \o Str(ToUpper(githubContextKeys[i])) : i \in DOMAIN githubContextKeys}

\* C7: for a pipeline whose secret names pass the validation, the keys of
\* the five groups of the execute step's environment are pairwise disjoint,
\* so nothing written later replaces an earlier entry: COMMAND is
\* "dagger call -q " + command, and every secret S is ${{ secrets.S }}.
C7_EnvKeysDisjoint ==
    (op = "callDaggerStep" /\ \A i \in DOMAIN arg.Secrets : WellFormedName(arg.Secrets[i])) =>
        LET env    == res.Env
            groups == << {"COMMAND"}, SecretKeys(arg), ModuleKeys(arg),
                         TokenKeys(arg), HostContextKeys >>
        IN  /\ \A i, j \in DOMAIN groups : i # j => groups[i] \cap groups[j] = {}
            /\ env["COMMAND"] = "dagger call -q " \o Str(arg.Command)
            /\ \A i \in DOMAIN arg.Secrets :
                  env[Str(arg.Secrets[i])] = "${{ secrets." \o Str(arg.Secrets[i]) \o " }}"

\* C8: with the four bundled scripts readable, asWorkflow completes
\* without a panic for every combination of settings; with stopEngine set
\* its last step runs the stop-engine script, and without it no step does.
C8_CompilationNeverPanics ==
    op = "asWorkflow" =>
        /\ ~res.panic
        /\ LET steps == res.Jobs.dagger.Steps
               stops == {i \in DOMAIN steps : steps[i].Name = "scripts/stop-engine.sh"}
           IN  IF arg.Settings.StopEngine
               THEN /\ Len(steps) \in stops
                    /\ steps[Len(steps)].Run = Contents("scripts/stop-engine.sh")
               ELSE stops = {}

Whitespace == {" ", "\t", "\n"}

\* strings.Fields: the maximal runs of characters that are not white space.
RECURSIVE FieldsFrom(_, _, _)
FieldsFrom(s, cur, out) ==
    IF s = <<>> THEN (IF cur = <<>> THEN out ELSE Append(out, cur))
    ELSE IF Head(s) \in Whitespace
         THEN FieldsFrom(Tail(s), <<>>, IF cur = <<>> THEN out ELSE Append(out, cur))
         ELSE FieldsFrom(Tail(s), Append(cur, Head(s)), out)

Fields(s) == FieldsFrom(s, <<>>, <<>>)

\* C9: the script of the dry run, split on white space, is "dagger",
\* "call", then "-m" and the quoted module if and only if the module is
\* non-empty, then the tokens of the command, then "--help".
C9_DryRunTokens ==
    op = "checkCommandAndModule" =>
        Fields(res.execs[1]) =
            << <<"d","a","g","g","e","r">>, <<"c","a","l","l">> >>
            \o (IF arg.p.Module # <<>>
                THEN << <<"-","m">>, <<"'">> \o arg.p.Module \o <<"'">> >>
                ELSE <<>>)
            \o Fields(arg.p.Command)
            \o << <<"-","-","h","e","l","p">> >>

====
